---- MODULE Spec2Model ----
(***************************************************************************)
(* Agent Mojo front end: the run page (P1Run, an SSE event log), the       *)
(* interactive page (P2Interactive, a WebSocket chat), the three bootstrap *)
(* calls of lib/api.ts and the two transport helpers lib/stream.ts and     *)
(* lib/ws.ts, as one state machine.                                        *)
(*                                                                         *)
(* The pages are React function components.  What the model takes from     *)
(* React, the browser and the network (none of it is code of the           *)
(* repository) is stated where it is used:                                 *)
(*   - a state setter called outside a discrete user event only enqueues   *)
(*     an update; the updates are applied, in order, by the next render;   *)
(*     an updater function runs inside React (eagerly with its exception   *)
(*     swallowed and replayed, or during the render), never inside the     *)
(*     caller's try block;                                                 *)
(*   - an exception during a render with no error boundary unmounts the    *)
(*     whole root (routes.tsx mounts the pages with no boundary);          *)
(*   - passive effects (useEffect) of a render that was not caused by a    *)
(*     discrete event run in a later task, and always before the next      *)
(*     render: cleanup of the previous effect first, then the new effect;  *)
(*   - EventSource: CONNECTING -> OPEN, a network error puts it back to    *)
(*     CONNECTING (the browser reconnects) and fires onerror; close() sets *)
(*     CLOSED and never throws; a CLOSED source dispatches nothing;        *)
(*   - WebSocket: send() throws InvalidStateError while CONNECTING, queues *)
(*     the frame while OPEN and discards it while CLOSING or CLOSED;       *)
(*     close() never throws; messages are dispatched only while OPEN.      *)
(***************************************************************************)
EXTENDS Integers, Sequences, FiniteSets, TLC

VARIABLES
    route,      \* routes.tsx: the location, "/", "/p1" or "/p2"
    crashed,    \* the React root was unmounted by an uncaught render error
    view,       \* a log handed to a render function, and what the render made of it
    host,       \* the server deploy.sh runs on, and the script's position
    calls,      \* HTTP calls in flight; live: the page that made the call is mounted
    nCalls,     \* number of HTTP calls issued so far
    apiLog,     \* calls of lib/api.ts on given responses, with their outcomes
    lastFault,  \* the last error that escaped every handler (uncaught / unhandled)
    \* ---- P1Run -------------------------------------------------------
    gitUrl,     \* useState("")
    tasks,      \* useState(""): the text of the tasks field, a sequence of characters
    zipToken,   \* useState<string | undefined>()
    runId,      \* useState<string | undefined>()
    events,     \* useState<RunEvent[]>([])
    updates,    \* P1Run's queue of state updates not yet rendered
    effRunId,   \* the [runId] dependency the effect last ran with
    off,        \* the stream whose close function the effect returned
    streams,    \* every EventSource created, in creation order
    \* ---- P2Interactive ------------------------------------------------
    sessionId,  \* useState<string | undefined>()
    chat,       \* useState<ChatMsg[]>([])
    input,      \* useState("")
    wsRef,      \* useRef: the channel wsRef.current designates
    asked,      \* the send calls the handlers made on wsRef.current, in order
    channels    \* every WebSocket created, in creation order

appVars == <<route, crashed, view, host>>
netVars == <<calls, nCalls, apiLog, lastFault>>
p1State == <<gitUrl, tasks, zipToken, runId, events, updates, effRunId, off>>
p1Vars  == <<p1State, streams>>
p2State == <<sessionId, chat, input, wsRef, asked>>
p2Vars  == <<p2State, channels>>
vars    == <<appVars, netVars, p1Vars, p2Vars>>

(***************************************************************************)
(* Bounds of the model.                                                    *)
(***************************************************************************)
MaxEvents == 4   \* HTTP calls issued + frames delivered + chat lines and send calls
                 \* + the entry of the tasks text
MaxApiLog == 2   \* api.ts calls recorded in apiLog
MaxLog    == 2   \* entries of a log handed to a render function

None == "undefined"

(***************************************************************************)
(* Data: the texts the backend sends and what JSON.parse makes of them.    *)
(***************************************************************************)
StepText(i) ==
    "{\"type\":\"step\",\"index\":" \o ToString(i) \o ",\"tool\":\"bash\",\"summary\":\"s\"}"
StepEvent(i) == [type |-> "step", index |-> i, tool |-> "bash", summary |-> "s"]

MalformedText == "{\"type\":\"step\",\"ind"

\* The frames a stream of the start-run endpoint delivers: step 2 and step 1
\* in any order and any number of times, and a truncated (non-JSON) frame.
RunFrames == {StepText(1), StepText(2), MalformedText}

RunIdOf(k)     == "r" \o ToString(k)
SessionIdOf(k) == "s" \o ToString(k)
ZipTokenOf(k)  == "z" \o ToString(k)
RunBody(k)     == "{\"run_id\":\"" \o RunIdOf(k) \o "\"}"
SessionBody(k) == "{\"session_id\":\"" \o SessionIdOf(k) \o "\"}"
ZipBody(k)     == "{\"zip_token\":\"" \o ZipTokenOf(k) \o "\"}"

ProposalText == "{\"type\":\"proposal\",\"actions\":[{\"id\":\"42\",\"summary\":\"a\"}]}"
ProposalMsg  == [type |-> "proposal", actions |-> <<[id |-> "42", summary |-> "a"]>>]
QuestionText == "{\"type\":\"question\",\"choices\":[\"yes\",\"no\"]}"
QuestionMsg  == [type |-> "question", choices |-> <<"yes", "no">>]

\* The frames a channel delivers.
ChatFrames == {ProposalText, QuestionText, MalformedText}

\* Response bodies of a non-2xx answer: the pages see one, the calls of
\* lib/api.ts taken alone see all of them.
ErrorBodies    == {"bad input"}
ApiErrorBodies == {"bad input", "", "{\"detail\":\"Not Found\"}"}

Ids == 1 .. MaxEvents

\* JSON.parse / Response.json() on the texts above: the parsed value, or a
\* SyntaxError for a text that is not JSON.
JSONParse(text) ==
    IF \E i \in 1..2 : text = StepText(i)
    THEN [ok |-> TRUE, value |-> StepEvent(CHOOSE i \in 1..2 : text = StepText(i))]
    ELSE IF \E k \in Ids : text = RunBody(k)
    THEN [ok |-> TRUE, value |-> [run_id |-> RunIdOf(CHOOSE k \in Ids : text = RunBody(k))]]
    ELSE IF \E k \in Ids : text = SessionBody(k)
    THEN [ok |-> TRUE,
          value |-> [session_id |-> SessionIdOf(CHOOSE k \in Ids : text = SessionBody(k))]]
    ELSE IF \E k \in Ids : text = ZipBody(k)
    THEN [ok |-> TRUE, value |-> [zip_token |-> ZipTokenOf(CHOOSE k \in Ids : text = ZipBody(k))]]
    ELSE IF text = ProposalText THEN [ok |-> TRUE, value |-> ProposalMsg]
    ELSE IF text = QuestionText THEN [ok |-> TRUE, value |-> QuestionMsg]
    ELSE [ok |-> FALSE, error |-> "SyntaxError"]

(***************************************************************************)
(* lib/api.ts.  A response is [ok, body]; the outcome of a call is either  *)
(* [threw |-> FALSE, value] or [threw |-> TRUE, message].                  *)
(***************************************************************************)
Returned(v) == [threw |-> FALSE, value |-> v]
Threw(msg)  == [threw |-> TRUE, message |-> msg]

\* return (await r.json()) as {...}
ResponseJson(r) ==
    LET p == JSONParse(r.body) IN IF p.ok THEN Returned(p.value) ELSE Threw(p.error)

\* p1StartRun were it to wrap the body in a message of its own
p1StartRun_wrapped(r) ==
    IF ~r.ok THEN Threw("start-run failed: " \o r.body) ELSE ResponseJson(r)
\* if (!r.ok) throw new Error(await r.text()); return await r.json();
p1StartRun(r) == IF ~r.ok THEN Threw(r.body) ELSE ResponseJson(r)

p2CreateSession(r) == IF ~r.ok THEN Threw(r.body) ELSE ResponseJson(r)

uploadZip(r) == IF ~r.ok THEN Threw(r.body) ELSE ResponseJson(r)

ApiCall(fn, r) ==
    CASE fn = "p1StartRun"      -> p1StartRun(r)
      [] fn = "p2CreateSession" -> p2CreateSession(r)
      [] fn = "uploadZip"       -> uploadZip(r)

\* The body of a successful answer to call number k, per the wire contract:
\* a JSON object holding a fresh identifier.
SuccessBody(fn, k) ==
    CASE fn = "p1StartRun"      -> RunBody(k)
      [] fn = "p2CreateSession" -> SessionBody(k)
      [] fn = "uploadZip"       -> ZipBody(k)

\* What the backend may answer to call number k.
Responses(fn, k) ==
    {[ok |-> TRUE, body |-> SuccessBody(fn, k)]}
    \cup {[ok |-> FALSE, body |-> b] : b \in ErrorBodies}

(***************************************************************************)
(* lib/stream.ts.  A stream is [runId, readyState, frames, errored]:       *)
(* frames is the history of the texts it delivered, errored records that   *)
(* its error event fired.  A close call yields the stream after the call   *)
(* and whether the call threw.                                             *)
(***************************************************************************)
\* EventSource.close(): sets CLOSED in every state
EsClose(es) == [es EXCEPT !.readyState = "closed"]

\* const es = new EventSource(`/api/p1/stream/${runId}`); es.onmessage = onEvent
p1OpenStream(id) ==
    [runId |-> id, readyState |-> "connecting", frames |-> <<>>, errored |-> FALSE]

\* es.onerror = () => es.close()
\* es.onerror were it absent: the browser keeps reconnecting
EsOnError_keep(es) == es
EsOnError(es) == EsClose(es)

\* return () => es.close()
\* the close function were a second close an error
StreamOff_once(es) ==
    IF es.readyState = "closed" THEN [es |-> es, threw |-> TRUE]
    ELSE [es |-> EsClose(es), threw |-> FALSE]
StreamOff(es) == [es |-> EsClose(es), threw |-> FALSE]

(***************************************************************************)
(* lib/ws.ts.  A channel is [sessionId, readyState, live, frames, sent]:   *)
(* live tells whether the page whose onStart created it is still mounted,  *)
(* frames is the history of the texts it delivered, sent the texts handed  *)
(* to the network.                                                         *)
(***************************************************************************)
\* JSON.stringify of an object of string fields: the fields in the order the
\* page's object literals write them
JSONStringify(m) ==
    LET Present(k) == k \in DOMAIN m
        keys == SelectSeq(<<"type", "text", "actionId", "reason">>, Present)
        Pair(k) == "\"" \o k \o "\":\"" \o m[k] \o "\""
        RECURSIVE Join(_)
        Join(ks) == IF ks = <<>> THEN ""
                    ELSE IF Len(ks) = 1 THEN Pair(ks[1])
                    ELSE Pair(ks[1]) \o "," \o Join(Tail(ks))
    IN  "{" \o Join(keys) \o "}"

\* WebSocket.send(data): InvalidStateError while CONNECTING, transmitted while
\* OPEN, discarded while CLOSING or CLOSED
WsSend(ws, data) ==
    CASE ws.readyState = "connecting" -> [ws |-> ws, threw |-> TRUE]
      [] ws.readyState = "open"       -> [ws |-> [ws EXCEPT !.sent = Append(@, data)],
                                          threw |-> FALSE]
      [] OTHER                        -> [ws |-> ws, threw |-> FALSE]

\* WebSocket.close(): starts the closing handshake; nothing when CLOSING or CLOSED
WsClose(ws) ==
    IF ws.readyState \in {"connecting", "open"} THEN [ws EXCEPT !.readyState = "closing"]
    ELSE ws

\* const ws = new WebSocket(`${proto}://${location.host}/api/p2/ws/${sessionId}`)
p2OpenWS(id, owner) ==
    [sessionId |-> id, readyState |-> "connecting", live |-> owner,
     frames |-> <<>>, sent |-> <<>>]

\* send: (m: any) => ws.send(JSON.stringify(m))
ChannelSend(ws, m) == WsSend(ws, JSONStringify(m))

\* close: () => ws.close()
ChannelClose(ws) == [ws |-> WsClose(ws), threw |-> FALSE]

(***************************************************************************)
(* The application shell: routes.tsx and App.tsx.                          *)
(***************************************************************************)
Mounted(page) == route = page /\ ~crashed

Fault(src, err) == [src |-> src, error |-> err]

\* the calls in flight once the page that made them is unmounted
Orphaned(cs) == {[c EXCEPT !.live = FALSE] : c \in cs}

SumLen(seqs, field) ==
    LET RECURSIVE Sum(_)
        Sum(i) == IF i = 0 THEN 0 ELSE Len(seqs[i][field]) + Sum(i - 1)
    IN  Sum(Len(seqs))


HasField(m, f) == f \in DOMAIN m

\* frames delivered so far, on every transport
FramesDelivered == SumLen(streams, "frames") + SumLen(channels, "frames")

\* user lines in the chat log
UserLines ==
    Cardinality({i \in DOMAIN chat : HasField(chat[i], "role") /\ chat[i].role = "user"})

\* what the environment and the user have done so far
Spent == nCalls + FramesDelivered + UserLines + Len(asked)
         + (IF tasks = <<>> THEN 0 ELSE 1)

(***************************************************************************)
(* P1Run (src/unnamed/part_001 is pages/P1Run.tsx).                        *)
(***************************************************************************)
GitUrls == {"", "https://x/y.git"}

\* setEvents((e) => [...e, JSON.parse(ev.data)]): the updater React runs
\* the updater were it to keep only the newest event
EventsUpdater_replace(e, data) ==
    LET p == JSONParse(data)
    IN  IF p.ok THEN [threw |-> FALSE, value |-> <<p.value>>] ELSE Threw(p.error)
EventsUpdater(e, data) ==
    LET p == JSONParse(data)
    IN  IF p.ok THEN [threw |-> FALSE, value |-> Append(e, p.value)] ELSE Threw(p.error)

\* One queued update applied to the state st = [runId, events, zipToken, threw].
ApplyUpdate(u, st) ==
    CASE u.op = "setRunId"    -> [st EXCEPT !.runId = u.arg]
      [] u.op = "setZipToken" -> [st EXCEPT !.zipToken = u.arg]
      [] u.op = "setEvents"   -> [st EXCEPT !.events = u.arg]
      [] u.op = "updateEvents" ->
            LET res == EventsUpdater(st.events, u.data)
            IN  IF res.threw THEN [st EXCEPT !.threw = TRUE]
                ELSE [st EXCEPT !.events = res.value]

\* React applies the queued updates in the order of the setter calls; an
\* updater that throws aborts the render.
RECURSIVE ApplyUpdates(_, _)
ApplyUpdates(q, st) ==
    IF q = <<>> \/ st.threw THEN st
    ELSE ApplyUpdates(Tail(q), ApplyUpdate(Head(q), st))

\* (ev) => { try { setEvents((e) => [...e, JSON.parse(ev.data)]); } catch {} }
\* setEvents only enqueues the updater, so the try block has nothing to catch.
StreamCallback(q, data) == Append(q, [op |-> "updateEvents", data |-> data])

\* const [gitUrl, setGitUrl] = useState(""); ... the state of a fresh P1Run
P1Fresh == [gitUrl |-> "", tasks |-> <<>>, zipToken |-> None, runId |-> None,
            events |-> <<>>]

\* const [sessionId, setSessionId] = useState(); ... the state of a fresh P2Interactive
P2Fresh == [sessionId |-> None, chat |-> <<>>, input |-> "", wsRef |-> 0]

\* nothing was handed to a render function
NoView == [page |-> "none", log |-> <<>>, done |-> FALSE, outcome |-> Returned(<<>>)]

\* deploy.sh was not started: the operator is at the shell prompt
NoHost == [pc |-> "shell", root |-> FALSE, sudo |-> TRUE, files |-> {},
           appDir |-> "absent", before |-> "absent", log |-> <<>>]

\* routes.tsx: the page of the location is mounted, in its initial state.  The
\* pages share no state and a page mounted again starts afresh, so a behaviour
\* follows one mounted page.
Init ==
    /\ route \in {"/p1", "/p2"}
    /\ crashed = FALSE
    /\ view = NoView
    /\ host = NoHost
    /\ calls = {}
    /\ nCalls = 0
    /\ apiLog = <<>>
    /\ lastFault = Fault(None, None)
    /\ gitUrl = P1Fresh.gitUrl
    /\ tasks = P1Fresh.tasks
    /\ zipToken = P1Fresh.zipToken
    /\ runId = P1Fresh.runId
    /\ events = P1Fresh.events
    /\ updates = <<>>
    /\ effRunId = None
    /\ off = 0
    /\ streams = <<>>
    /\ sessionId = P2Fresh.sessionId
    /\ chat = P2Fresh.chat
    /\ input = P2Fresh.input
    /\ wsRef = P2Fresh.wsRef
    /\ asked = <<>>
    /\ channels = <<>>

\* The effect cleanup of P1Run at unmount: off(), when the effect returned it.
P1Unmount ==
    IF off = 0 THEN UNCHANGED <<streams, lastFault>>
    ELSE LET res == StreamOff(streams[off])
         IN  /\ streams' = [streams EXCEPT ![off] = res.es]
             /\ lastFault' = IF res.threw
                          THEN Fault("P1Run cleanup", "close threw")
                          ELSE lastFault

\* onChange={(e) => setGitUrl(e.target.value)}: a discrete event, rendered at once
\* (React runs the pending passive effects before it).
P1SetGitUrl(v) ==
    /\ Mounted("/p1")
    /\ runId = effRunId
    /\ v # gitUrl
    /\ gitUrl' = v
    /\ UNCHANGED <<appVars, netVars, tasks, zipToken, runId, events, updates, effRunId, off,
                   streams, p2Vars>>

\* onUpload up to its await
P1Upload(hasFile) ==
    /\ Mounted("/p1")
    /\ IF ~hasFile THEN UNCHANGED <<calls, nCalls>>
       ELSE /\ Spent < MaxEvents
            /\ nCalls' = nCalls + 1
            /\ calls' = calls \cup {[id |-> nCalls + 1, fn |-> "uploadZip", live |-> TRUE]}
    /\ UNCHANGED <<appVars, apiLog, lastFault, p1Vars, p2Vars>>

\* onUpload were it to have no try block around the call
P1UploadDone_uncaught(c, r) ==
    /\ c \in calls /\ c.fn = "uploadZip"
    /\ r \in Responses(c.fn, c.id)
    /\ LET res == uploadZip(r)
           live == Mounted("/p1") /\ c.live
       IN  /\ IF ~res.threw /\ live
              THEN updates' = Append(updates, [op |-> "setZipToken",
                                                  arg |-> res.value.zip_token])
              ELSE UNCHANGED updates
           /\ lastFault' = IF res.threw THEN Fault("P1Run.onUpload", res.message)
                           ELSE lastFault
    /\ calls' = calls \ {c}
    /\ UNCHANGED <<appVars, nCalls, apiLog, gitUrl, tasks, zipToken, runId, events, effRunId,
                   off, streams, p2Vars>>

\* onUpload after its await: setZipToken(zip_token), or the catch block
\* (console.error, alert), which changes no state.
P1UploadDone(c, r) ==
    /\ c \in calls /\ c.fn = "uploadZip"
    /\ r \in Responses(c.fn, c.id)
    /\ LET res == uploadZip(r)
           live == Mounted("/p1") /\ c.live
       IN  /\ IF ~res.threw /\ live
              THEN updates' = Append(updates, [op |-> "setZipToken",
                                                  arg |-> res.value.zip_token])
              ELSE UNCHANGED updates
    /\ calls' = calls \ {c}
    /\ UNCHANGED <<appVars, nCalls, apiLog, lastFault, gitUrl, tasks, zipToken, runId, events, effRunId,
                   off, streams, p2Vars>>

\* the characters typed into the tasks field, and the texts made of them
TaskChars == {"a", "b", " ", "\n"}
MaxText   == 3
TaskTexts == UNION {[1 .. n -> TaskChars] : n \in 0 .. MaxText}

\* String.prototype.split("\n"): the pieces between the separators
RECURSIVE Split(_)
Split(text) ==
    IF text = <<>> THEN << <<>> >>
    ELSE LET rest == Split(Tail(text))
         IN  IF Head(text) = "\n" THEN << <<>> >> \o rest
             ELSE << <<Head(text)>> \o rest[1] >> \o Tail(rest)

\* String.prototype.trim: white space removed from both ends
WhiteSpace == {" ", "\n"}
RECURSIVE TrimStart(_)
TrimStart(t) ==
    IF t # <<>> /\ Head(t) \in WhiteSpace THEN TrimStart(Tail(t)) ELSE t
RECURSIVE TrimEnd(_)
TrimEnd(t) ==
    IF t # <<>> /\ t[Len(t)] \in WhiteSpace THEN TrimEnd(SubSeq(t, 1, Len(t) - 1)) ELSE t
TrimLine(t) == TrimEnd(TrimStart(t))

\* the task list were a repeated line to be sent once
TaskList_dedup(text) ==
    LET lines   == Split(text)
        trimmed == [i \in DOMAIN lines |-> TrimLine(lines[i])]
        RECURSIVE Unique(_)
        Unique(xs) ==
            IF xs = <<>> THEN <<>>
            ELSE LET init == Unique(SubSeq(xs, 1, Len(xs) - 1))
                     last == xs[Len(xs)]
                 IN  IF last = <<>> \/ \E i \in DOMAIN init : init[i] = last
                     THEN init ELSE Append(init, last)
    IN  Unique(trimmed)

\* tasks.split("\n").map((s) => s.trim()).filter(Boolean)
TaskList(text) ==
    LET lines   == Split(text)
        trimmed == [i \in DOMAIN lines |-> TrimLine(lines[i])]
        Boolean(t) == t # <<>>
    IN  SelectSeq(trimmed, Boolean)

\* onChange={(e) => setTasks(e.target.value)}; the text is entered in one
\* change event, before the first request of the page
P1SetTasks(v) ==
    /\ Mounted("/p1")
    /\ runId = effRunId
    /\ tasks = P1Fresh.tasks
    /\ Spent = 0
    /\ v \in TaskTexts \ {tasks}
    /\ tasks' = v
    /\ UNCHANGED <<appVars, netVars, gitUrl, zipToken, runId, events, updates, effRunId, off,
                   streams, p2Vars>>

\* The payload onStart builds: the task list, and git_url and zip_token only
\* when set.
P1Payload ==
    [tasks |-> TaskList(tasks)]
    @@ (IF gitUrl # "" THEN [git_url |-> gitUrl] ELSE <<>>)
    @@ (IF zipToken # None THEN [zip_token |-> zipToken] ELSE <<>>)

\* onStart were it to clear the log before the call returns
P1StartClick_optimistic ==
    /\ Mounted("/p1")
    /\ gitUrl # "" \/ zipToken # None
    /\ Spent < MaxEvents
    /\ nCalls' = nCalls + 1
    /\ calls' = calls \cup {[id |-> nCalls + 1, fn |-> "p1StartRun", live |-> TRUE,
                             payload |-> P1Payload]}
    /\ updates' = Append(updates, [op |-> "setEvents", arg |-> <<>>])
    /\ UNCHANGED <<appVars, apiLog, lastFault, gitUrl, tasks, zipToken, runId, events, effRunId,
                   off, streams, p2Vars>>
\* onStart up to its await; the button is disabled={!gitUrl && !zipToken}
P1StartClick ==
    /\ Mounted("/p1")
    /\ gitUrl # "" \/ zipToken # None
    /\ Spent < MaxEvents
    /\ nCalls' = nCalls + 1
    /\ calls' = calls \cup {[id |-> nCalls + 1, fn |-> "p1StartRun", live |-> TRUE,
                             payload |-> P1Payload]}
    /\ UNCHANGED <<appVars, apiLog, lastFault, p1Vars, p2Vars>>

\* onStart after its await: setRunId(run_id); setEvents([]).  A rejected call
\* leaves onStart by an exception nothing handles.  Setters of an unmounted
\* component do nothing.
P1StartDone(c, r) ==
    /\ c \in calls /\ c.fn = "p1StartRun"
    /\ r \in Responses(c.fn, c.id)
    /\ LET res == p1StartRun(r)
           live == Mounted("/p1") /\ c.live
       IN  /\ lastFault' = IF res.threw
                        THEN Fault("P1Run.onStart", res.message)
                        ELSE lastFault
           /\ IF ~res.threw /\ live
              THEN updates' = updates \o <<[op |-> "setRunId", arg |-> res.value.run_id],
                                              [op |-> "setEvents", arg |-> <<>>]>>
              ELSE UNCHANGED updates
    /\ calls' = calls \ {c}
    /\ UNCHANGED <<appVars, nCalls, apiLog, gitUrl, tasks, zipToken, runId, events, effRunId, off,
                   streams, p2Vars>>

\* The render of P1Run that applies the queued updates.  An updater that throws
\* fails the render; with no error boundary React unmounts the root, which runs
\* the effect cleanup.
P1Render ==
    /\ Mounted("/p1")
    /\ updates # <<>>
    /\ runId = effRunId
    /\ LET st == ApplyUpdates(updates, [runId |-> runId, events |-> events,
                                        zipToken |-> zipToken, threw |-> FALSE])
       IN  IF st.threw
           THEN /\ crashed' = TRUE
                /\ calls' = Orphaned(calls)
                /\ IF off = 0 THEN streams' = streams
                   ELSE streams' = [streams EXCEPT ![off] = StreamOff(streams[off]).es]
                /\ lastFault' = Fault("P1Run render", "SyntaxError")
                /\ UNCHANGED <<runId, events, zipToken>>
           ELSE /\ runId' = st.runId
                /\ events' = st.events
                /\ zipToken' = st.zipToken
                /\ UNCHANGED <<crashed, calls, streams, lastFault>>
    /\ updates' = <<>>
    /\ UNCHANGED <<route, view, host, nCalls, apiLog, gitUrl, tasks, effRunId, off, p2Vars>>

\* useEffect(() => { if (!runId) return; const off = p1OpenStream(...); return off; },
\* [runId]) after a render that changed runId: the previous cleanup, then the effect.
P1FlushEffects ==
    /\ Mounted("/p1")
    /\ runId # effRunId
    /\ LET res    == IF off = 0 THEN [es |-> <<>>, threw |-> FALSE] ELSE StreamOff(streams[off])
           closed == IF off = 0 THEN streams ELSE [streams EXCEPT ![off] = res.es]
       IN  /\ lastFault' = IF res.threw
                        THEN Fault("P1Run cleanup", "close threw")
                        ELSE lastFault
           /\ IF runId = None
              THEN streams' = closed /\ off' = 0
              ELSE streams' = Append(closed, p1OpenStream(runId)) /\ off' = Len(streams) + 1
    /\ effRunId' = runId
    /\ UNCHANGED <<appVars, calls, nCalls, apiLog, gitUrl, tasks, zipToken, runId, events, updates,
                   p2Vars>>

\* The connection of stream i is established.
StreamOpen(i) ==
    /\ i \in DOMAIN streams
    /\ streams[i].readyState = "connecting"
    /\ streams' = [streams EXCEPT ![i].readyState = "open"]
    /\ UNCHANGED <<appVars, netVars, p1State, p2Vars>>

\* Stream i delivers a frame: es.onmessage = onEvent.
StreamMessage(i, data) ==
    /\ i \in DOMAIN streams
    /\ streams[i].readyState = "open"
    /\ Spent < MaxEvents
    /\ streams' = [streams EXCEPT ![i].frames = Append(@, data)]
    /\ updates' = IF Mounted("/p1") THEN StreamCallback(updates, data) ELSE updates
    /\ UNCHANGED <<appVars, netVars, gitUrl, tasks, zipToken, runId, events, effRunId, off, p2Vars>>

\* A transport error on stream i: the browser starts to reconnect (CONNECTING)
\* and fires the error event; es.onerror runs.
StreamError(i) ==
    /\ i \in DOMAIN streams
    /\ streams[i].readyState \in {"connecting", "open"}
    /\ ~streams[i].errored
    /\ streams' = [streams EXCEPT
                     ![i] = EsOnError([@ EXCEPT !.readyState = "connecting", !.errored = TRUE])]
    /\ UNCHANGED <<appVars, netVars, p1State, p2Vars>>

(***************************************************************************)
(* P2Interactive (pages/P2Interactive.tsx).  Its setters take values or    *)
(* total updaters and nothing reads the state between a setter call and    *)
(* the render that follows, so each update is applied where it is made.    *)
(***************************************************************************)
InputTexts == {"", " ", " hi"}

\* String.prototype.trim on the texts of the input field
Trim(text) ==
    CASE text = " hi" -> "hi"
      [] text = " "   -> ""
      [] OTHER        -> text

Greeting(id) ==
    [role |-> "assistant", text |-> "Session " \o id \o " ready. Tell me what to scaffold."]

\* wsRef.current?.send(m): the fault it may raise out of the handler src
RefSend(m, src) ==
    IF wsRef = 0 THEN UNCHANGED <<channels, lastFault>>
    ELSE LET res == ChannelSend(channels[wsRef], m)
         IN  /\ channels' = [channels EXCEPT ![wsRef] = res.ws]
             /\ lastFault' = IF res.threw THEN Fault(src, "InvalidStateError")
                          ELSE lastFault

\* the handler src calls wsRef.current.send(m); state is the channel's
\* readyState at the call
Trigger(m, src) ==
    asked' = IF wsRef # 0
             THEN Append(asked, [src |-> src, m |-> m,
                                 state |-> channels[wsRef].readyState])
             ELSE asked

RefSendThrows(m) == wsRef # 0 /\ ChannelSend(channels[wsRef], m).threw

\* useEffect(() => () => wsRef.current?.close(), []); the handlers of every
\* channel the page created now belong to an unmounted component.
P2Unmount ==
    LET res  == IF wsRef = 0 THEN [ws |-> <<>>, threw |-> FALSE]
                ELSE ChannelClose(channels[wsRef])
        dead == [i \in DOMAIN channels |-> [channels[i] EXCEPT !.live = FALSE]]
    IN  /\ channels' = IF wsRef = 0 THEN dead
                       ELSE [dead EXCEPT ![wsRef] = [res.ws EXCEPT !.live = FALSE]]
        /\ lastFault' = IF res.threw THEN Fault("P2Interactive cleanup", "close threw")
                        ELSE lastFault
        /\ UNCHANGED streams

\* onChange={(e) => setInput(e.target.value)}; the field exists once sessionId is set
P2SetInput(v) ==
    /\ Mounted("/p2")
    /\ sessionId # None
    /\ Spent < MaxEvents
    /\ v # input
    /\ input' = v
    /\ UNCHANGED <<appVars, netVars, p1Vars, sessionId, chat, wsRef, asked, channels>>

\* onStart up to its await; the Start 2P form is rendered while !sessionId
P2StartClick ==
    /\ Mounted("/p2")
    /\ sessionId = None
    /\ Spent < MaxEvents
    /\ nCalls' = nCalls + 1
    /\ calls' = calls \cup {[id |-> nCalls + 1, fn |-> "p2CreateSession", live |-> TRUE]}
    /\ UNCHANGED <<appVars, apiLog, lastFault, p1Vars, p2Vars>>

\* onStart after its await: setSessionId; wsRef.current = p2OpenWS(...); setChat([...]).
\* The continuation also runs when the page was unmounted meanwhile: its setters
\* do nothing then, the WebSocket is created all the same.
P2StartDone(c, r) ==
    /\ c \in calls /\ c.fn = "p2CreateSession"
    /\ r \in Responses(c.fn, c.id)
    /\ LET res  == p2CreateSession(r)
           live == Mounted("/p2") /\ c.live
       IN  /\ lastFault' = IF res.threw
                        THEN Fault("P2Interactive.onStart", res.message)
                        ELSE lastFault
           /\ IF res.threw THEN UNCHANGED <<p2Vars>>
              ELSE /\ channels' = Append(channels, p2OpenWS(res.value.session_id, live))
                   /\ IF live
                      THEN /\ sessionId' = res.value.session_id
                           /\ wsRef' = Len(channels) + 1
                           /\ chat' = <<Greeting(res.value.session_id)>>
                           /\ UNCHANGED <<input, asked>>
                      ELSE UNCHANGED p2State
    /\ calls' = calls \ {c}
    /\ UNCHANGED <<appVars, nCalls, apiLog, p1Vars>>

\* The handshake of channel i completes.
ChannelOpen(i) ==
    /\ i \in DOMAIN channels
    /\ channels[i].readyState = "connecting"
    /\ channels' = [channels EXCEPT ![i].readyState = "open"]
    /\ UNCHANGED <<appVars, netVars, p1Vars, p2State>>

\* Channel i delivers a frame: ws.onmessage = (ev) => onMsg(JSON.parse(ev.data)),
\* onMsg = (msg) => setChat((c) => [...c, msg]).  JSON.parse runs in the event
\* handler, with no try block around it.
ChannelMessage(i, data) ==
    /\ i \in DOMAIN channels
    /\ channels[i].readyState = "open"
    /\ Spent < MaxEvents
    /\ channels' = [channels EXCEPT ![i].frames = Append(@, data)]
    /\ LET p    == JSONParse(data)
           live == Mounted("/p2") /\ channels[i].live
       IN  /\ lastFault' = IF p.ok THEN lastFault
                        ELSE Fault("ws.onmessage", p.error)
           /\ chat' = IF p.ok /\ live THEN Append(chat, p.value) ELSE chat
    /\ UNCHANGED <<appVars, calls, nCalls, apiLog, p1Vars, sessionId, input, wsRef, asked>>

\* Channel i goes down: a transport error or the server's close, or the end of
\* the closing handshake.  ws.ts registers no handler for either.
ChannelDown(i) ==
    /\ i \in DOMAIN channels
    /\ channels[i].readyState # "closed"
    /\ channels' = [channels EXCEPT ![i].readyState = "closed"]
    /\ UNCHANGED <<appVars, netVars, p1Vars, p2State>>

\* sendUser: the Send button or Enter in the input field
sendUser ==
    /\ Mounted("/p2")
    /\ sessionId # None
    /\ Spent < MaxEvents
    /\ LET text == Trim(input)
       IN  IF text = "" THEN UNCHANGED <<chat, input, asked, channels, lastFault>>
           ELSE /\ chat' = Append(chat, [role |-> "user", text |-> text])
                /\ RefSend([type |-> "answer", text |-> text], "sendUser")
                /\ Trigger([type |-> "answer", text |-> text], "sendUser")
                /\ input' = IF RefSendThrows([type |-> "answer", text |-> text])
                            THEN input ELSE ""
    /\ UNCHANGED <<appVars, calls, nCalls, apiLog, p1Vars, sessionId, wsRef>>

\* the action ids of the proposals rendered from the chat log
ProposedActions ==
    UNION {{chat[i].actions[j].id : j \in DOMAIN chat[i].actions} :
              i \in {k \in DOMAIN chat : HasField(chat[k], "type")
                                         /\ chat[k].type = "proposal"}}

\* the choices of the questions rendered from the chat log
OfferedChoices ==
    UNION {{chat[i].choices[j] : j \in DOMAIN chat[i].choices} :
              i \in {k \in DOMAIN chat : HasField(chat[k], "type")
                                         /\ chat[k].type = "question"}}


\* onApprove were it to skip an action it already approved
onApprove_dedup(actionId) ==
    LET m    == [type |-> "approve", actionId |-> actionId]
        seen == wsRef # 0 /\ \E k \in DOMAIN channels[wsRef].sent :
                                 channels[wsRef].sent[k] = JSONStringify(m)
    IN  /\ Mounted("/p2")
        /\ sessionId # None
        /\ actionId \in ProposedActions
        /\ Spent < MaxEvents
        /\ IF seen THEN UNCHANGED <<channels, lastFault>> ELSE RefSend(m, "onApprove")
        /\ Trigger(m, "onApprove")
        /\ UNCHANGED <<appVars, calls, nCalls, apiLog, p1Vars, sessionId, chat, input, wsRef>>

\* onApprove(actionId): the Approve button of a rendered proposal action
onApprove(actionId) ==
    /\ Mounted("/p2")
    /\ sessionId # None
    /\ actionId \in ProposedActions
    /\ Spent < MaxEvents
    /\ RefSend([type |-> "approve", actionId |-> actionId], "onApprove")
    /\ Trigger([type |-> "approve", actionId |-> actionId], "onApprove")
    /\ UNCHANGED <<appVars, calls, nCalls, apiLog, p1Vars, sessionId, chat, input, wsRef>>

\* onReject were it to send no reason
onReject_bare(actionId) ==
    /\ Mounted("/p2")
    /\ sessionId # None
    /\ actionId \in ProposedActions
    /\ Spent < MaxEvents
    /\ RefSend([type |-> "reject", actionId |-> actionId], "onReject")
    /\ Trigger([type |-> "reject", actionId |-> actionId], "onReject")
    /\ UNCHANGED <<appVars, calls, nCalls, apiLog, p1Vars, sessionId, chat, input, wsRef>>

\* onReject were it to note the rejection in the chat log
onReject_echo(actionId) ==
    /\ Mounted("/p2")
    /\ sessionId # None
    /\ actionId \in ProposedActions
    /\ Spent < MaxEvents
    /\ RefSend([type |-> "reject", actionId |-> actionId, reason |-> "Not now"], "onReject")
    /\ Trigger([type |-> "reject", actionId |-> actionId, reason |-> "Not now"], "onReject")
    /\ chat' = Append(chat, [role |-> "system", text |-> "Rejected " \o actionId])
    /\ UNCHANGED <<appVars, calls, nCalls, apiLog, p1Vars, sessionId, input, wsRef>>

\* onReject(actionId): the Reject button of a rendered proposal action
onReject(actionId) ==
    /\ Mounted("/p2")
    /\ sessionId # None
    /\ actionId \in ProposedActions
    /\ Spent < MaxEvents
    /\ RefSend([type |-> "reject", actionId |-> actionId, reason |-> "Not now"], "onReject")
    /\ Trigger([type |-> "reject", actionId |-> actionId, reason |-> "Not now"], "onReject")
    /\ UNCHANGED <<appVars, calls, nCalls, apiLog, p1Vars, sessionId, chat, input, wsRef>>

\* the choice button were it to send its answer twice
ChoiceClick_twice(c) ==
    LET m == [type |-> "answer", text |-> c]
    IN  /\ Mounted("/p2")
        /\ sessionId # None
        /\ c \in OfferedChoices
        /\ Spent < MaxEvents
        /\ IF wsRef # 0 /\ channels[wsRef].readyState = "open"
           THEN /\ channels' = [channels EXCEPT ![wsRef] =
                                   ChannelSend(ChannelSend(@, m).ws, m).ws]
                /\ UNCHANGED lastFault
           ELSE RefSend(m, "choice")
        /\ Trigger(m, "choice")
        /\ UNCHANGED <<appVars, calls, nCalls, apiLog, p1Vars, sessionId, chat, input, wsRef>>

\* onClick={() => wsRef.current?.send({ type: "answer", text: c })}
ChoiceClick(c) ==
    /\ Mounted("/p2")
    /\ sessionId # None
    /\ c \in OfferedChoices
    /\ Spent < MaxEvents
    /\ RefSend([type |-> "answer", text |-> c], "choice")
    /\ Trigger([type |-> "answer", text |-> c], "choice")
    /\ UNCHANGED <<appVars, calls, nCalls, apiLog, p1Vars, sessionId, chat, input, wsRef>>

\* The user leaves the mounted page (a link, the back button): the page is
\* unmounted, its effect cleanups run, its state is discarded and its calls in
\* flight are orphaned.
Unmount ==
    /\ ~crashed
    /\ route # "/"
    /\ route' = "/"
    /\ calls' = Orphaned(calls)
    /\ IF route = "/p1" THEN P1Unmount /\ UNCHANGED channels ELSE P2Unmount
    /\ gitUrl' = P1Fresh.gitUrl
    /\ tasks' = P1Fresh.tasks
    /\ zipToken' = P1Fresh.zipToken
    /\ runId' = P1Fresh.runId
    /\ events' = P1Fresh.events
    /\ updates' = <<>>
    /\ effRunId' = None
    /\ off' = 0
    /\ sessionId' = P2Fresh.sessionId
    /\ chat' = P2Fresh.chat
    /\ input' = P2Fresh.input
    /\ wsRef' = P2Fresh.wsRef
    /\ UNCHANGED <<crashed, view, host, nCalls, apiLog, asked>>

P1Next ==
    \/ \E v \in GitUrls : P1SetGitUrl(v)
    \/ \E f \in BOOLEAN : P1Upload(f)
    \/ \E c \in calls : \E r \in Responses(c.fn, c.id) : P1UploadDone(c, r)
    \/ P1StartClick
    \/ \E c \in calls : \E r \in Responses(c.fn, c.id) : P1StartDone(c, r)
    \/ P1Render
    \/ P1FlushEffects
    \/ \E i \in DOMAIN streams : StreamOpen(i)
    \/ \E i \in DOMAIN streams, d \in RunFrames : StreamMessage(i, d)
    \/ \E i \in DOMAIN streams : StreamError(i)

P2Next ==
    \/ \E v \in InputTexts : P2SetInput(v)
    \/ P2StartClick
    \/ \E c \in calls : \E r \in Responses(c.fn, c.id) : P2StartDone(c, r)
    \/ \E i \in DOMAIN channels : ChannelOpen(i)
    \/ \E i \in DOMAIN channels, d \in ChatFrames : ChannelMessage(i, d)
    \/ \E i \in DOMAIN channels : ChannelDown(i)
    \/ sendUser
    \/ \E a \in ProposedActions : onApprove(a)
    \/ \E a \in ProposedActions : onReject(a)
    \/ \E c \in OfferedChoices : ChoiceClick(c)

\* One visit of one page, from its mount to what its transports and calls
\* still do after it was left.
Next == Unmount \/ P1Next \/ P2Next

Spec == Init /\ [][Next]_vars

(***************************************************************************)
(* The bootstrap calls on their own: each action calls one function of     *)
(* lib/api.ts on one response of the backend and records the outcome.      *)
(***************************************************************************)
ApiFns == {"p1StartRun", "p2CreateSession", "uploadZip"}

ApiSettle(fn, k, r) ==
    /\ Len(apiLog) < MaxApiLog
    /\ apiLog' = Append(apiLog, [fn |-> fn, id |-> k, response |-> r,
                                 outcome |-> ApiCall(fn, r)])
    /\ UNCHANGED <<appVars, calls, nCalls, lastFault, p1Vars, p2Vars>>

NextApi ==
    \E fn \in ApiFns, k \in Ids :
        \E r \in Responses(fn, k) \cup {[ok |-> FALSE, body |-> b] : b \in ApiErrorBodies} :
            ApiSettle(fn, k, r)

SpecApi == Init /\ [][NextApi]_vars

(***************************************************************************)
(* Rendering.  What a successful JSON.parse can put into a log is any JSON *)
(* value; the render functions are modelled on tagged JSON values so that  *)
(* a property access, a call or a React child can fail as it does in       *)
(* JavaScript.  The outcome of a render is Returned(pieces of text) or     *)
(* Threw("TypeError").                                                     *)
(***************************************************************************)
JUndefined == [k |-> "undefined"]
JNull      == [k |-> "null"]
JBool(b)   == [k |-> "boolean", b |-> b]
JNum(n)    == [k |-> "number", n |-> n]
JStr(t)    == [k |-> "string", s |-> t]
JArr(xs)   == [k |-> "array", items |-> xs]
JObj(fs)   == [k |-> "object", f |-> fs]

\* e.name: a TypeError on null or undefined, undefined when there is no such property
Get(v, name) ==
    IF v.k \in {"null", "undefined"} THEN Threw("TypeError")
    ELSE IF v.k = "object" /\ name \in DOMAIN v.f THEN Returned(v.f[name])
    ELSE Returned(JUndefined)

\* e.name where e is known not to be null or undefined
Field(v, name) == Get(v, name).value

\* x === "text"
StrictEq(v, text) == v.k = "string" /\ v.s = text

\* the truth value JavaScript gives x in x && ...
Truthy(v) ==
    CASE v.k \in {"undefined", "null"} -> FALSE
      [] v.k = "boolean" -> v.b
      [] v.k = "number"  -> v.n # 0
      [] v.k = "string"  -> v.s # ""
      [] OTHER           -> TRUE

\* a ?? b
Coalesce_falsy(v, d) == IF Truthy(v) THEN v ELSE d
Coalesce(v, d) == IF v.k \in {"undefined", "null"} THEN d ELSE v

\* the outcomes of the parts of one element, evaluated left to right
RECURSIVE Collect(_)
Collect(rs) ==
    IF rs = <<>> THEN Returned(<<>>)
    ELSE IF Head(rs).threw THEN Head(rs)
    ELSE LET rest == Collect(Tail(rs))
         IN  IF rest.threw THEN rest ELSE Returned(Head(rs).value \o rest.value)

\* {x} as a React child: nothing for undefined, null and booleans, the text of
\* a string or number, the children of an array; a plain object is refused
RECURSIVE ChildText(_)
ChildText(v) ==
    CASE v.k \in {"undefined", "null", "boolean"} -> Returned(<<>>)
      [] v.k = "string" -> Returned(<<v.s>>)
      [] v.k = "number" -> Returned(<<ToString(v.n)>>)
      [] v.k = "array"  -> Collect([i \in DOMAIN v.items |-> ChildText(v.items[i])])
      [] OTHER          -> Threw("TypeError")

\* x?.map((f) => <details>{f.path}{f.patch}</details>)
FilesMap(files) ==
    IF files.k \in {"undefined", "null"} THEN Returned(<<>>)
    ELSE IF files.k # "array" THEN Threw("TypeError")
    ELSE Collect([i \in DOMAIN files.items |->
                     LET f == files.items[i]
                     IN  IF Get(f, "path").threw THEN Threw("TypeError")
                         ELSE Collect(<<ChildText(Field(f, "path")),
                                        ChildText(Field(f, "patch"))>>)])

\* The element P1Run and LogStream render for one event of the log.
RenderRunEvent(e) ==
    LET t == Get(e, "type")
    IN  IF t.threw THEN t
        ELSE CASE StrictEq(t.value, "output") -> ChildText(Field(e, "text"))
               [] StrictEq(t.value, "step") ->
                      Collect(<<ChildText(Field(e, "tool")), ChildText(Field(e, "summary"))>>)
               [] StrictEq(t.value, "status") -> ChildText(Field(e, "state"))
               [] StrictEq(t.value, "error") -> ChildText(Field(e, "message"))
               [] StrictEq(t.value, "metrics") ->
                      Collect(<<Returned(<<"coverage">>),
                                ChildText(Coalesce(Field(e, "coverage"), JStr("-"))),
                                Returned(<<"refactor">>),
                                ChildText(Coalesce(Field(e, "refactor"), JStr("-"))),
                                Returned(<<"combo">>),
                                ChildText(Coalesce(Field(e, "combo"), JNum(0)))>>)
               [] StrictEq(t.value, "diff") -> FilesMap(Field(e, "files"))
               [] OTHER -> Returned(<<>>)

\* role.toUpperCase() of the roles of ChatMsg
ToUpperCase(t) ==
    CASE t = "user"      -> "USER"
      [] t = "assistant" -> "ASSISTANT"
      [] t = "system"    -> "SYSTEM"
      [] OTHER           -> t

\* {m.role && <div><b>{m.role.toUpperCase()}</b>: {m.text}</div>}
RenderRole(m) ==
    LET role == Field(m, "role")
    IN  IF ~Truthy(role) THEN ChildText(role)
        ELSE IF role.k # "string" THEN Threw("TypeError")
        ELSE Collect(<<Returned(<<ToUpperCase(role.s)>>), ChildText(Field(m, "text"))>>)

\* m.actions?.map((a) => <div key={a.id}>{a.summary} Approve Reject</div>)
ActionsMap(actions) ==
    IF actions.k \in {"undefined", "null"} THEN Returned(<<>>)
    ELSE IF actions.k # "array" THEN Threw("TypeError")
    ELSE Collect([i \in DOMAIN actions.items |->
                     LET a == actions.items[i]
                     IN  IF Get(a, "id").threw THEN Threw("TypeError")
                         ELSE Collect(<<ChildText(Field(a, "summary")),
                                        Returned(<<"Approve", "Reject">>)>>)])

\* m.choices?.map((c, k) => <button key={k}>{c}</button>)
ChoicesMap(choices) ==
    IF choices.k \in {"undefined", "null"} THEN Returned(<<>>)
    ELSE IF choices.k # "array" THEN Threw("TypeError")
    ELSE Collect([i \in DOMAIN choices.items |-> ChildText(choices.items[i])])

\* The element P2Interactive renders for one message of the chat log.
RenderChatMsg(m) ==
    LET t == Get(m, "role")
    IN  IF t.threw THEN t
        ELSE Collect(<<RenderRole(m),
                       IF StrictEq(Field(m, "type"), "proposal")
                       THEN ActionsMap(Field(m, "actions")) ELSE Returned(<<>>),
                       IF StrictEq(Field(m, "type"), "diff")
                       THEN FilesMap(Field(m, "files")) ELSE Returned(<<>>),
                       IF StrictEq(Field(m, "type"), "question")
                       THEN ChoicesMap(Field(m, "choices")) ELSE Returned(<<>>)>>)

\* one element per entry of the log, or the failure of the first that fails
Elements(rs) ==
    Collect([i \in DOMAIN rs |-> IF rs[i].threw THEN rs[i] ELSE Returned(<<rs[i].value>>)])

\* P1Run: {events.map((e, i) => <div key={i}>...</div>)}
P1RunLog(log) == Elements([i \in DOMAIN log |-> RenderRunEvent(log[i])])

\* LogStream({ events })
LogStream(log) == Elements([i \in DOMAIN log |-> RenderRunEvent(log[i])])

\* P2Interactive: {chat.map((m, i) => <div key={i}>...</div>)}
P2ChatLog(log) == Elements([i \in DOMAIN log |-> RenderChatMsg(log[i])])

(***************************************************************************)
(* The render functions on their own: a log of JSON values is handed to    *)
(* P1Run, LogStream or P2Interactive and rendered once.                    *)
(***************************************************************************)
MetricFields == {"coverage", "refactor", "combo"}
MetricValues == {JNum(0), JNum(3)}

\* every metrics event: each of coverage, refactor, combo absent or a number
MetricsEvents ==
    {JObj([type |-> JStr("metrics")] @@ g) :
        g \in UNION {[S -> MetricValues] : S \in SUBSET MetricFields}}

FileDiff == JObj([path |-> JStr("a.ts"), patch |-> JStr("+1")])

\* what a successful JSON.parse can put into the run log
RunValues ==
    MetricsEvents \cup
    {JObj([type |-> JStr("step"), index |-> JNum(1), tool |-> JStr("bash"),
           summary |-> JStr("s")]),
     JObj([type |-> JStr("step")]),
     JObj([type |-> JStr("output"), tool |-> JStr("bash"), text |-> JStr("t")]),
     JObj([type |-> JStr("status"), runId |-> JStr("r1"), state |-> JStr("done")]),
     JObj([type |-> JStr("error"), message |-> JStr("m")]),
     JObj([type |-> JStr("diff"), files |-> JArr(<<FileDiff>>)]),
     JObj([type |-> JStr("diff")]),
     JObj([type |-> JStr("zzz")]),
     JObj(<<>>),
     JNull, JNum(5), JStr("x")}

\* what the chat log can hold: the lines the page adds and any parsed frame
ChatValues ==
    {JObj([role |-> JStr("assistant"), text |-> JStr("ready")]),
     JObj([role |-> JStr("user"), text |-> JStr("hi")]),
     JObj([type |-> JStr("proposal"),
           actions |-> JArr(<<JObj([id |-> JStr("42"), summary |-> JStr("a")])>>)]),
     JObj([type |-> JStr("proposal")]),
     JObj([type |-> JStr("question"), choices |-> JArr(<<JStr("yes"), JStr("no")>>)]),
     JObj([type |-> JStr("question")]),
     JObj([type |-> JStr("diff"), files |-> JArr(<<FileDiff>>)]),
     JObj([type |-> JStr("diff")]),
     JObj([type |-> JStr("zzz")]),
     JObj(<<>>),
     JObj([role |-> JNum(1), text |-> JStr("x")]),
     JNull, JNum(5), JStr("x")}

Logs(values) == UNION {[1 .. n -> values] : n \in 0 .. MaxLog}

InitRender == Init

Handed(page, log) == [page |-> page, log |-> log, done |-> FALSE, outcome |-> Returned(<<>>)]

\* a log reaches the render function of a page or component
Hand ==
    /\ view = NoView
    /\ \/ route = "/p1" /\ \E log \in Logs(RunValues) : view' = Handed("P1Run", log)
       \/ route = "/p1" /\ \E log \in Logs(RunValues) : view' = Handed("LogStream", log)
       \/ route = "/p2" /\ \E log \in Logs(ChatValues) : view' = Handed("P2Interactive", log)
    /\ UNCHANGED <<route, crashed, host, netVars, p1Vars, p2Vars>>

RenderP1Run ==
    /\ view.page = "P1Run" /\ ~view.done
    /\ view' = [view EXCEPT !.done = TRUE, !.outcome = P1RunLog(view.log)]
    /\ UNCHANGED <<route, crashed, host, netVars, p1Vars, p2Vars>>

RenderLogStream ==
    /\ view.page = "LogStream" /\ ~view.done
    /\ view' = [view EXCEPT !.done = TRUE, !.outcome = LogStream(view.log)]
    /\ UNCHANGED <<route, crashed, host, netVars, p1Vars, p2Vars>>

RenderP2Interactive ==
    /\ view.page = "P2Interactive" /\ ~view.done
    /\ view' = [view EXCEPT !.done = TRUE, !.outcome = P2ChatLog(view.log)]
    /\ UNCHANGED <<route, crashed, host, netVars, p1Vars, p2Vars>>

NextRender == Hand \/ RenderP1Run \/ RenderLogStream \/ RenderP2Interactive

SpecRender == InitRender /\ [][NextRender]_vars

(***************************************************************************)
(* deploy/deploy.sh and deploy/setup_environment.sh.  Both run under       *)
(* set -e: the first failing command ends the script.  appDir is the state *)
(* of /opt/agentmojo: "absent", "dir" (a directory that is not a clone of  *)
(* the repository) or "clone".  log lists the commands attempted, each     *)
(* with the state of /opt/agentmojo it found.                              *)
(***************************************************************************)
DeployFiles == {"setup_environment.sh", "agentmojo.service", "agentmojo.nginx.conf"}

\* the servers and working directories deploy.sh is started on
Servers ==
    [root : BOOLEAN, sudo : BOOLEAN, files : SUBSET DeployFiles,
     appDir : {"absent", "dir", "clone"}]

\* the commands of setup_environment.sh that end it when they fail, in order
\* (useradd is followed by || echo and cannot end it)
SetupSteps == <<"packages", "uv", "mkdir /opt/agentmojo", "mkdir logs and data",
                "chown", "ufw">>

\* setup_environment.sh on a server whose /opt/agentmojo is dir; failAt is the
\* index of the command that fails, 0 when none does.
setup_environment(dir, failAt) ==
    LET mk == CHOOSE i \in DOMAIN SetupSteps : SetupSteps[i] = "mkdir /opt/agentmojo"
    IN  [ok     |-> failAt = 0,
         appDir |-> IF dir = "absent" /\ (failAt = 0 \/ failAt > mk)
                    THEN "dir" ELSE dir]

Attempt(cmd) == Append(host.log, [cmd |-> cmd, appDir |-> host.appDir])

\* ./deploy.sh is started: the checks for root and for sudo
DeployStart(env) ==
    /\ host = NoHost
    /\ env \in Servers
    /\ host' = [pc     |-> IF env.root \/ ~env.sudo THEN "failed" ELSE "step1",
                root   |-> env.root,
                sudo   |-> env.sudo,
                files  |-> env.files,
                appDir |-> env.appDir,
                before |-> env.appDir,
                log    |-> <<>>]
    /\ UNCHANGED <<route, crashed, view, netVars, p1Vars, p2Vars>>

\* Step 1: sudo ./setup_environment.sh, when the file is there
DeployStep1(failAt) ==
    /\ host.pc = "step1"
    /\ failAt \in 0 .. Len(SetupSteps)
    /\ IF "setup_environment.sh" \in host.files
       THEN LET res == setup_environment(host.appDir, failAt)
            IN  host' = [host EXCEPT !.pc = IF res.ok THEN "step2" ELSE "failed",
                                     !.appDir = res.appDir,
                                     !.log = Attempt("setup_environment.sh")]
       ELSE host' = [host EXCEPT !.pc = "failed"]
    /\ UNCHANGED <<route, crashed, view, netVars, p1Vars, p2Vars>>

\* Step 2: git pull when /opt/agentmojo is a directory, else mkdir, chown and
\* git clone.  git pull fails in a directory that is not a repository.
DeployStep2(ok) ==
    /\ host.pc = "step2"
    /\ IF host.appDir # "absent"
       THEN host' = [host EXCEPT !.pc = IF ok /\ host.appDir = "clone"
                                        THEN "step3" ELSE "failed",
                                 !.log = Attempt("git pull")]
       ELSE host' = [host EXCEPT !.pc = IF ok THEN "step3" ELSE "failed",
                                 !.appDir = IF ok THEN "clone" ELSE "dir",
                                 !.log = Attempt("git clone")]
    /\ UNCHANGED <<route, crashed, view, netVars, p1Vars, p2Vars>>

\* a step that is one group of commands: it fails or goes on to the next step
DeployRun(cmd, ok, next) ==
    host' = [host EXCEPT !.pc = IF ok THEN next ELSE "failed",
                         !.log = Attempt(cmd)]

\* Step 3: uv venv and uv sync in /opt/agentmojo
DeployStep3(ok) ==
    /\ host.pc = "step3"
    /\ DeployRun("uv sync", ok, "step4")
    /\ UNCHANGED <<route, crashed, view, netVars, p1Vars, p2Vars>>

\* Step 4: npm ci and npm run build in /opt/agentmojo/frontend
DeployStep4(ok) ==
    /\ host.pc = "step4"
    /\ DeployRun("npm run build", ok, "step5")
    /\ UNCHANGED <<route, crashed, view, netVars, p1Vars, p2Vars>>

\* Step 5: the systemd unit, when the file is there
DeployStep5(ok) ==
    /\ host.pc = "step5"
    /\ IF "agentmojo.service" \in host.files
       THEN DeployRun("systemctl enable", ok, "step6")
       ELSE host' = [host EXCEPT !.pc = "failed"]
    /\ UNCHANGED <<route, crashed, view, netVars, p1Vars, p2Vars>>

\* Step 6: the nginx site, when the file is there, and nginx -t
DeployStep6(ok) ==
    /\ host.pc = "step6"
    /\ IF "agentmojo.nginx.conf" \in host.files
       THEN DeployRun("nginx -t", ok, "step7")
       ELSE host' = [host EXCEPT !.pc = "failed"]
    /\ UNCHANGED <<route, crashed, view, netVars, p1Vars, p2Vars>>

\* Step 7: cp trae_config.json.example trae_config.json || true
DeployStep7 ==
    /\ host.pc = "step7"
    /\ DeployRun("cp trae_config.json", TRUE, "step8")
    /\ UNCHANGED <<route, crashed, view, netVars, p1Vars, p2Vars>>

\* Step 8: chown -R of the application, data and log directories
DeployStep8(ok) ==
    /\ host.pc = "step8"
    /\ DeployRun("chown -R", ok, "step9")
    /\ UNCHANGED <<route, crashed, view, netVars, p1Vars, p2Vars>>

\* Step 9: systemctl start agentmojo, systemctl restart nginx, each followed
\* by is-active
DeployStep9(ok) ==
    /\ host.pc = "step9"
    /\ DeployRun("systemctl start", ok, "step10")
    /\ UNCHANGED <<route, crashed, view, netVars, p1Vars, p2Vars>>

\* Step 10: the health check only warns; the summary is printed
DeployStep10 ==
    /\ host.pc = "step10"
    /\ DeployRun("curl /health", TRUE, "done")
    /\ UNCHANGED <<route, crashed, view, netVars, p1Vars, p2Vars>>

InitDeploy == Init

NextDeploy ==
    \/ \E env \in Servers : DeployStart(env)
    \/ \E failAt \in 0 .. Len(SetupSteps) : DeployStep1(failAt)
    \/ \E ok \in BOOLEAN : DeployStep2(ok)
    \/ \E ok \in BOOLEAN : DeployStep3(ok)
    \/ \E ok \in BOOLEAN : DeployStep4(ok)
    \/ \E ok \in BOOLEAN : DeployStep5(ok)
    \/ \E ok \in BOOLEAN : DeployStep6(ok)
    \/ DeployStep7
    \/ \E ok \in BOOLEAN : DeployStep8(ok)
    \/ \E ok \in BOOLEAN : DeployStep9(ok)
    \/ DeployStep10

SpecDeploy == InitDeploy /\ [][NextDeploy]_vars

(***************************************************************************)
(* The run page up to the start-run request: the fields are filled in, an  *)
(* archive is uploaded, Start 1P is clicked.                               *)
(***************************************************************************)
InitTasks == Init

NextTasks ==
    \/ \E v \in TaskTexts : P1SetTasks(v)
    \/ \E v \in GitUrls : P1SetGitUrl(v)
    \/ P1Upload(TRUE)
    \/ \E c \in calls : \E r \in Responses(c.fn, c.id) : P1UploadDone(c, r)
    \/ P1Render
    \/ P1StartClick

SpecTasks == InitTasks /\ [][NextTasks]_vars

(***************************************************************************)
(* Properties of the run page's event log and of the transports.           *)
(***************************************************************************)

\* C1: once every delivered frame has been rendered, the events log of the run
\* page equals, in order of delivery, the parsed values of exactly the
\* parseable frames the stream of the current run delivered; malformed frames
\* contribute nothing and the log is no longer than the frames.
C1_LogIsParsedFrames ==
    (route = "/p1" /\ updates = <<>> /\ runId = effRunId /\ off # 0) =>
        LET RECURSIVE Parsed(_)
            Parsed(fs) ==
                IF fs = <<>> THEN <<>>
                ELSE LET p == JSONParse(Head(fs))
                     IN  (IF p.ok THEN <<p.value>> ELSE <<>>) \o Parsed(Tail(fs))
        IN  /\ events = Parsed(streams[off].frames)
            /\ Len(events) <= Len(streams[off].frames)

\* C2: a malformed frame delivered by the stream is dropped silently: no error
\* escapes the message handler or the state updater and the page does not crash.
C2_MalformedFrameDropped ==
    /\ ~crashed
    /\ lastFault.src # "P1Run render"

\* C3: a send made by sendUser, onApprove, onReject or a choice button while the
\* channel is still connecting raises no fault out of the handler.
C3_SendBeforeOpenRaisesNothing ==
    lastFault.error # "InvalidStateError"

\* C4: of the channels a mounted interactive page created, every one that is
\* connecting or open is the one its transport reference designates, so there
\* is at most one of them.
C4_OneChannelPerPage ==
    \A i \in DOMAIN channels :
        (channels[i].live /\ channels[i].readyState \in {"connecting", "open"}) => wsRef = i

\* C5: at most one event stream is connecting or open, and it is the stream of
\* the current run identifier.
C5_OpenStreamIsCurrent ==
    /\ Cardinality({i \in DOMAIN streams : streams[i].readyState # "closed"}) <= 1
    /\ \A i \in DOMAIN streams :
           streams[i].readyState # "closed" => streams[i].runId = runId

\* C6: each of p1StartRun, p2CreateSession and uploadZip, on a non-success
\* answer with body B, fails with an error whose message is exactly B and
\* returns no value; on a success answer it returns the parsed body and raises
\* nothing.
C6_ErrorMessageIsBody ==
    \A i \in DOMAIN apiLog :
        LET e == apiLog[i]
            expected ==
                CASE e.fn = "p1StartRun"      -> [run_id |-> RunIdOf(e.id)]
                  [] e.fn = "p2CreateSession" -> [session_id |-> SessionIdOf(e.id)]
                  [] e.fn = "uploadZip"       -> [zip_token |-> ZipTokenOf(e.id)]
        IN  IF e.response.ok
            THEN /\ ~e.outcome.threw
                 /\ e.outcome.value = expected
            ELSE /\ e.outcome.threw
                 /\ e.outcome.message = e.response.body
                 /\ ~HasField(e.outcome, "value")

\* a start-run call answered 400 "bad input" and a call answered with success
C6_Witness ==
    /\ \E i \in DOMAIN apiLog :
           /\ apiLog[i].fn = "p1StartRun"
           /\ apiLog[i].response = [ok |-> FALSE, body |-> "bad input"]
           /\ apiLog[i].outcome.threw
    /\ \E i \in DOMAIN apiLog : apiLog[i].response.ok /\ ~apiLog[i].outcome.threw

\* C7: a Start click changes neither the identifier, the log nor the transports
\* of its page, and queues no change of them; neither does a bootstrap call
\* that fails; every stream and every channel carries the identifier a
\* completed bootstrap call returned, and the identifier and the log are set
\* only from such a call.
C7_BootstrapThenIdentifierThenOpen ==
    /\ [](LET done        == {k \in 1 .. nCalls : \A c \in calls : c.id # k}
              queuedRunId == {updates[j].arg : j \in {q \in DOMAIN updates :
                                                         updates[q].op = "setRunId"}}
          IN  /\ \A i \in DOMAIN streams : \E k \in done : streams[i].runId = RunIdOf(k)
              /\ \A i \in DOMAIN channels :
                     \E k \in done : channels[i].sessionId = SessionIdOf(k)
              /\ \A id \in ({runId} \cup queuedRunId) \ {None} :
                     \E k \in done : id = RunIdOf(k)
              /\ sessionId # None => \E k \in done : sessionId = SessionIdOf(k)
              /\ (done = {} /\ route # "/") =>
                     /\ events = <<>> /\ updates = <<>> /\ chat = <<>>
                     /\ runId = None /\ sessionId = None)
    /\ [][/\ nCalls' # nCalls =>
                 UNCHANGED <<runId, events, updates, effRunId, off, streams,
                             sessionId, chat, wsRef, channels>>
          /\ \A c \in calls : \A r \in Responses(c.fn, c.id) :
                 (~r.ok /\ (P1StartDone(c, r) \/ P2StartDone(c, r))) =>
                     UNCHANGED <<runId, events, updates, effRunId, off, streams,
                                 sessionId, chat, wsRef, channels>>]_vars

\* the first start-run call failed, the second returned r2 and its stream is open
C7_Witness ==
    /\ lastFault.src = "P1Run.onStart"
    /\ runId = RunIdOf(2)
    /\ Len(streams) = 1
    /\ streams[1].runId = RunIdOf(2)
    /\ streams[1].readyState = "open"

\* C8: the close function p1OpenStream returns and the channel's close() raise
\* nothing in any state a transport reaches (connecting, open, closed by the
\* error handler or by an earlier close); a second close changes nothing the
\* first left, the closed transport is not connecting or open, its frames are
\* the ones it had, and no cleanup of either page ever raised.
C8_CloseIsIdempotent ==
    /\ \A i \in DOMAIN streams :
           LET once  == StreamOff(streams[i])
               twice == StreamOff(once.es)
           IN  /\ ~once.threw /\ ~twice.threw
               /\ once.es.readyState = "closed"
               /\ twice.es = once.es
               /\ once.es.frames = streams[i].frames
    /\ \A i \in DOMAIN channels :
           LET once  == ChannelClose(channels[i])
               twice == ChannelClose(once.ws)
           IN  /\ ~once.threw /\ ~twice.threw
               /\ once.ws.readyState \in {"closing", "closed"}
               /\ twice.ws = once.ws
               /\ once.ws.frames = channels[i].frames
    /\ lastFault.error # "close threw"

\* the error handler closed the stream, then the page was left and its cleanup
\* closed the same stream again
C8_Witness ==
    /\ route = "/"
    /\ Len(streams) = 1
    /\ streams[1].errored
    /\ streams[1].readyState = "closed"
    /\ streams[1].frames # <<>>

C10_LogAppendOnly ==
    [][route' = "/p1" =>
          /\ Len(events) <= Len(events')
          /\ SubSeq(events', 1, Len(events)) = events]_vars

\* C10 amended: across every such transition the previous log is a prefix of
\* the next log, except in the render that applies a new run identifier, which
\* starts the log of the new run.
C10_LogAppendOnlyWithinRun ==
    [][route' = "/p1" =>
          \/ /\ Len(events) <= Len(events')
             /\ SubSeq(events', 1, Len(events)) = events
          \/ runId' # runId]_vars

\* a second run is current and the log of the first, which held an event, is gone
C10_Witness ==
    /\ Mounted("/p1")
    /\ runId = RunIdOf(2)
    /\ Len(streams) >= 1
    /\ streams[1].runId = RunIdOf(1)
    /\ streams[1].frames = <<StepText(1)>>
    /\ events = <<>>
    /\ updates = <<>>

(***************************************************************************)
(* Properties of the interactive page's channel and of the rendering.      *)
(***************************************************************************)

\* C11: every Approve and every Reject triggered on an open channel puts its
\* own frame on the wire: the approve and reject frames transmitted are, in
\* number and order, the frames of the triggers, with no deduplication.
C11_NoApprovalDedup ==
    LET RECURSIVE Wire(_)
        Wire(i) == IF i = 0 THEN <<>> ELSE Wire(i - 1) \o channels[i].sent
        ids     == {ProposalMsg.actions[j].id : j \in DOMAIN ProposalMsg.actions}
        texts   == {JSONStringify([type |-> "approve", actionId |-> a]) : a \in ids}
                   \cup {JSONStringify([type |-> "reject", actionId |-> a,
                                        reason |-> "Not now"]) : a \in ids}
        IsApproval(t) == t \in texts
        ByButton(x)   == x.src \in {"onApprove", "onReject"} /\ x.state = "open"
        wire == SelectSeq(Wire(Len(channels)), IsApproval)
        trig == SelectSeq(asked, ByButton)
    IN  /\ Len(wire) = Len(trig)
        /\ \A i \in DOMAIN trig :
               /\ wire[i] = JSONStringify(trig[i].m)
               /\ trig[i].src = "onApprove" =>
                      wire[i] = "{\"type\":\"approve\",\"actionId\":\""
                                    \o trig[i].m.actionId \o "\"}"

\* Approve was triggered twice for action 42 and two approve frames went out
C11_Witness ==
    \E i \in DOMAIN channels :
        /\ channels[i].sent = <<"{\"type\":\"approve\",\"actionId\":\"42\"}",
                                "{\"type\":\"approve\",\"actionId\":\"42\"}">>
        /\ Len(asked) = 2
        /\ \A k \in DOMAIN asked : asked[k].src = "onApprove" /\ asked[k].state = "open"

\* C12: the inbound messages of the chat log (what follows the greeting, the
\* user lines left out) are exactly the parsed values of the well-formed
\* frames the page's channel delivered, in the order of delivery.
C12_ChatIsInboundFrames ==
    (Mounted("/p2") /\ wsRef # 0) =>
        LET RECURSIVE Parsed(_)
            Parsed(fs) ==
                IF fs = <<>> THEN <<>>
                ELSE LET p == JSONParse(Head(fs))
                     IN  (IF p.ok THEN <<p.value>> ELSE <<>>) \o Parsed(Tail(fs))
            Inbound(m) == ~(HasField(m, "role") /\ m.role = "user")
        IN  /\ chat # <<>>
            /\ SelectSeq(Tail(chat), Inbound) = Parsed(channels[wsRef].frames)

\* C13: a malformed frame delivered by a channel is dropped silently: no error
\* leaves the channel's message handler.
C13_MalformedChatFrameDropped ==
    lastFault.src # "ws.onmessage"

\* C14: rendering the run log and rendering the chat log complete without a
\* failure for every value a successful JSON parse can put into them.
C14_RenderNeverFails ==
    view.done => ~view.outcome.threw

\* C15: a metrics event renders coverage and refactor as "-" when the field is
\* missing and as its value when present, and combo as 0 when missing and as
\* its value when present; a log of metrics events never fails to render.
C15_MetricsDefaults ==
    LET Shown(e, name, dflt) ==
            IF name \in DOMAIN e.f THEN ToString(e.f[name].n) ELSE dflt
        Line(e) == <<"coverage", Shown(e, "coverage", "-"),
                     "refactor", Shown(e, "refactor", "-"),
                     "combo", Shown(e, "combo", "0")>>
    IN  (view.done /\ view.page \in {"P1Run", "LogStream"}) =>
            /\ (\A i \in DOMAIN view.log : view.log[i] \in MetricsEvents) =>
                   ~view.outcome.threw
            /\ ~view.outcome.threw =>
                   \A i \in DOMAIN view.log :
                       view.log[i] \in MetricsEvents =>
                           view.outcome.value[i] = Line(view.log[i])

\* the frame {"type":"metrics"} was rendered: coverage -, refactor -, combo 0
C15_Witness ==
    /\ view.done
    /\ view.page = "P1Run"
    /\ view.log = <<JObj([type |-> JStr("metrics")])>>
    /\ view.outcome = Returned(<< <<"coverage", "-", "refactor", "-", "combo", "0">> >>)

\* C16: every frame the interactive page transmits is the JSON text of an
\* object of one of three shapes: {type: "answer", text}, {type: "approve",
\* actionId} or {type: "reject", actionId, reason}, with no other field.
C16_OutboundShapes ==
    LET RECURSIVE Wire(_)
        Wire(i) == IF i = 0 THEN <<>> ELSE Wire(i - 1) \o channels[i].sent
        wire == Wire(Len(channels))
        OnOpen(x) == x.state = "open"
        open == SelectSeq(asked, OnOpen)
    IN  /\ Len(wire) = Len(open)
        /\ \A i \in DOMAIN open :
               LET m == open[i].m
               IN  /\ wire[i] = JSONStringify(m)
                   /\ \/ m.type = "answer"  /\ DOMAIN m = {"type", "text"}
                      \/ m.type = "approve" /\ DOMAIN m = {"type", "actionId"}
                      \/ m.type = "reject"  /\ DOMAIN m = {"type", "actionId", "reason"}
                   /\ wire[i] \in
                          {"{\"type\":\"answer\",\"text\":\"" \o t \o "\"}" :
                               t \in {"hi", "yes", "no"}}
                          \cup {"{\"type\":\"approve\",\"actionId\":\"42\"}",
                                "{\"type\":\"reject\",\"actionId\":\"42\",\"reason\":\"Not now\"}"}

\* a reject frame and then an approve frame went out on the channel
C16_Witness ==
    \E i \in DOMAIN channels :
        channels[i].sent =
            <<"{\"type\":\"reject\",\"actionId\":\"42\",\"reason\":\"Not now\"}",
              "{\"type\":\"approve\",\"actionId\":\"42\"}">>

C18_ExactlyOneSource ==
    \A c \in calls :
        c.fn = "p1StartRun" =>
            LET source == DOMAIN c.payload \cap {"git_url", "zip_token"}
            IN  /\ source # {}
                /\ source # {"git_url", "zip_token"}

\* C19: once the interactive page is torn down, no channel it opened is open:
\* the result of a create-session call still pending at teardown opens none,
\* and a channel opened before teardown is closed by it.
C19_NoChannelAfterTeardown ==
    route = "/" => \A i \in DOMAIN channels : channels[i].readyState # "open"

\* C20: deploy.sh started on a server where /opt/agentmojo does not exist never
\* attempts git pull, and attempts the dependency install, the build and the
\* service start only after it has cloned the repository.
C20_FreshServerClones ==
    host.before = "absent" =>
        \A i \in DOMAIN host.log :
            /\ host.log[i].cmd # "git pull"
            /\ host.log[i].cmd \in {"uv sync", "npm run build", "systemctl start"} =>
                   \E j \in 1 .. i - 1 : host.log[j].cmd = "git clone"

\* C21: events of a previous run never appear in the log of a later run: the
\* log of the mounted run page holds, in order, only events that the stream of
\* the current run identifier delivered.
C21_NoEventOfPreviousRun ==
    LET RECURSIVE Parsed(_)
        Parsed(fs) ==
            IF fs = <<>> THEN <<>>
            ELSE LET p == JSONParse(Head(fs))
                 IN  (IF p.ok THEN <<p.value>> ELSE <<>>) \o Parsed(Tail(fs))
        RECURSIVE Current(_)
        Current(i) ==
            IF i = 0 THEN <<>>
            ELSE Current(i - 1) \o (IF streams[i].runId = runId
                                    THEN Parsed(streams[i].frames) ELSE <<>>)
        mine == Current(Len(streams))
    IN  (Mounted("/p1") /\ runId # None) =>
            /\ Len(events) <= Len(mine)
            /\ events = SubSeq(mine, 1, Len(events))

\* C22: the chat log and the wire agree on the user's answers: the user lines
\* of the chat log are, in order, the texts of the answer frames sendUser
\* transmitted, one frame for each line.
C22_UserLinesAreSentAnswers ==
    LET RECURSIVE Wire(_)
        Wire(i) == IF i = 0 THEN <<>> ELSE Wire(i - 1) \o channels[i].sent
        typed == {Trim(t) : t \in InputTexts} \ {""}
        AnswerOf(t) == JSONStringify([type |-> "answer", text |-> t])
        IsTyped(f) == \E t \in typed : f = AnswerOf(t)
        IsUser(m) == HasField(m, "role") /\ m.role = "user"
        lines == SelectSeq(chat, IsUser)
        wire  == SelectSeq(Wire(Len(channels)), IsTyped)
    IN  Mounted("/p2") =>
            /\ Len(lines) = Len(wire)
            /\ \A i \in DOMAIN lines : wire[i] = AnswerOf(lines[i].text)

\* C23: sendUser on an input that is empty after trimming transmits nothing and
\* leaves the chat log and the input field as they are; on any other input it
\* appends one user line with the trimmed text, transmits one answer frame
\* with that text and clears the input field.
C23_SendUserHandlesInput ==
    [][sendUser =>
          LET text == Trim(input)
          IN  IF text = ""
              THEN UNCHANGED <<chat, input, channels>>
              ELSE /\ chat' = Append(chat, [role |-> "user", text |-> text])
                   /\ channels'[wsRef].sent =
                          Append(channels[wsRef].sent,
                                 JSONStringify([type |-> "answer", text |-> text]))
                   /\ input' = ""]_vars

\* C24: no inbound message is lost at session start: once onStart has
\* succeeded the chat log starts with the greeting that names the session, and
\* the well-formed frames delivered by every channel an onStart of the page
\* opened appear after the greeting, in the order of delivery.
C24_NoInboundLostAtStart ==
    LET RECURSIVE Parsed(_)
        Parsed(fs) ==
            IF fs = <<>> THEN <<>>
            ELSE LET p == JSONParse(Head(fs))
                 IN  (IF p.ok THEN <<p.value>> ELSE <<>>) \o Parsed(Tail(fs))
        RECURSIVE Within(_, _)
        Within(xs, ys) ==
            IF xs = <<>> THEN TRUE
            ELSE IF ys = <<>> THEN FALSE
            ELSE IF Head(xs) = Head(ys) THEN Within(Tail(xs), Tail(ys))
            ELSE Within(xs, Tail(ys))
    IN  (Mounted("/p2") /\ sessionId # None) =>
            /\ chat # <<>>
            /\ chat[1] = Greeting(sessionId)
            /\ \A i \in DOMAIN channels :
                   Within(Parsed(channels[i].frames), Tail(chat))

\* C25: Approve, Reject and the selection of a choice leave the chat log, the
\* session identifier and the input field as they were; within a session the
\* chat log is extended only by sendUser and by a frame a channel delivers.
C25_ButtonsLeaveChatAlone ==
    [][/\ (/\ Len(asked') = Len(asked) + 1
           /\ asked'[Len(asked')].src \in {"onApprove", "onReject", "choice"})
          => UNCHANGED <<chat, sessionId, input>>
       /\ (/\ sessionId' = sessionId
           /\ Len(chat') > Len(chat)
           /\ chat = SubSeq(chat', 1, Len(chat)))
          => \/ sendUser
             \/ \E i \in DOMAIN channels :
                    Len(channels'[i].frames) = Len(channels[i].frames) + 1]_vars

\* Reject and then Approve were clicked on the proposed action while the input
\* field held a text
C25_Witness ==
    /\ Mounted("/p2")
    /\ sessionId = "s1"
    /\ chat = <<Greeting("s1"), ProposalMsg>>
    /\ input = " hi"
    /\ Len(asked) = 2
    /\ asked[1].src = "onReject"
    /\ asked[2].src = "onApprove"

\* C26: an upload that fails is handled inside onUpload: no fault leaves the
\* handler and the archive token, the run identifier and the log stay as they
\* are; an upload that succeeds sets the archive token to the returned
\* zip_token and changes nothing else; with no file selected no request is
\* issued and nothing changes.
C26_UploadOutcome ==
    [][/\ \A c \in calls : \A r \in Responses("uploadZip", c.id) :
              P1UploadDone(c, r) =>
                  /\ lastFault' = lastFault
                  /\ UNCHANGED <<gitUrl, tasks, zipToken, runId, events, streams>>
                  /\ IF r.ok /\ c.live /\ Mounted("/p1")
                     THEN updates' = Append(updates, [op |-> "setZipToken",
                                                       arg |-> ZipTokenOf(c.id)])
                     ELSE UNCHANGED updates
       /\ (/\ P1Render
           /\ \A i \in DOMAIN updates : updates[i].op = "setZipToken")
          => /\ zipToken' = updates[Len(updates)].arg
             /\ UNCHANGED <<crashed, lastFault, gitUrl, tasks, runId, events, streams>>
       /\ P1Upload(FALSE) => UNCHANGED vars
       /\ P1Upload(TRUE) =>
              /\ \E c \in calls' : c.fn = "uploadZip" /\ calls' = calls \cup {c}
              /\ UNCHANGED <<lastFault, p1Vars>>]_vars

\* one upload was made and answered, and its zip_token is the archive token;
\* no run was started and nothing was logged
C26_Witness ==
    /\ Mounted("/p1")
    /\ nCalls = 1
    /\ calls = {}
    /\ updates = <<>>
    /\ zipToken = ZipTokenOf(1)
    /\ runId = None
    /\ events = <<>>
    /\ lastFault = Fault(None, None)

\* C27: the tasks a start-run request carries are the lines of the tasks text,
\* each without its surrounding white space, the lines that are empty then
\* left out, in the order of the text and with repetitions kept; git_url is in
\* the payload iff the git URL field is not empty and zip_token iff the page
\* holds an archive token.
C27_TaskListAndSources ==
    [][(/\ nCalls' = nCalls + 1
        /\ \E c \in calls' \ calls : c.fn = "p1StartRun")
       => LET c        == CHOOSE x \in calls' \ calls : TRUE
              sent     == c.payload.tasks
              breaks   == {i \in DOMAIN tasks : tasks[i] = "\n"}
              starts   == {1} \cup {i + 1 : i \in breaks}
              Least(S) == CHOOSE i \in S : \A j \in S : i <= j
              Most(S)  == CHOOSE i \in S : \A j \in S : i >= j
              End(b)   == LET after == {i \in breaks : i >= b}
                          IN  IF after = {} THEN Len(tasks) ELSE Least(after) - 1
              Ink(b)   == {i \in b .. End(b) : tasks[i] \notin {" ", "\n"}}
              kept     == {b \in starts : Ink(b) # {}}
              Nth(k)   == CHOOSE b \in kept : Cardinality({x \in kept : x < b}) = k - 1
          IN  /\ Len(sent) = Cardinality(kept)
              /\ \A k \in 1 .. Cardinality(kept) :
                     sent[k] = SubSeq(tasks, Least(Ink(Nth(k))), Most(Ink(Nth(k))))
              /\ ("git_url" \in DOMAIN c.payload) <=> (gitUrl # "")
              /\ gitUrl # "" => c.payload.git_url = gitUrl
              /\ ("zip_token" \in DOMAIN c.payload) <=> (zipToken # None)
              /\ zipToken # None => c.payload.zip_token = zipToken]_vars

\* a request was issued for the text "a", line break, "a", with a git URL and
\* an archive token: it carries the task a twice and both sources
C27_Witness ==
    /\ tasks = <<"a", "\n", "a">>
    /\ \E c \in calls :
           /\ c.fn = "p1StartRun"
           /\ c.payload = [tasks |-> << <<"a">>, <<"a">> >>,
                           git_url |-> "https://x/y.git",
                           zip_token |-> ZipTokenOf(1)]

====
